---- MODULE Spec2Model ----
(***************************************************************************)
(* A model of the signal-processing core of repet-audio-separation:        *)
(*   - repet.py        REPET: period estimation, repeating mask, separate  *)
(*   - pitch_shift.py  PitchShifter: pitch marks, TD-PSOLA, phase vocoder, *)
(*                     WSOLA and the semitone facade                       *)
(*   - audio_player.py AudioPlayer: loading, the separation and pitch      *)
(*                     threads, their callbacks, playback and its timer    *)
(*                                                                         *)
(* Floating-point values are IEEE-style binary floats <<m, e>> = m * 2^e   *)
(* with a MantBits-bit significand and round-to-nearest-even; exponents    *)
(* are unbounded (no audio value comes near the under/overflow limits).    *)
(* The transforms librosa.stft / librosa.istft / librosa.effects.          *)
(* pitch_shift are external: they are modelled by their call contracts     *)
(* (shapes, lengths, a zero input gives a zero output).                    *)
(***************************************************************************)
EXTENDS Integers, Sequences, FiniteSets, TLC

VARIABLES
  \* ---- REPET (repet.py) ----
  n_fft,              \* REPET.n_fft
  hop_length,         \* REPET.hop_length
  rpc,                \* position of the current REPET call
  raudio,             \* the samples load_audio returned (separate's `audio`)
  sr,                 \* the sample rate load_audio returned
  magnitude,          \* np.abs(stft): bins x frames matrix of integers
  gain,               \* common binary exponent of the magnitudes
  period,             \* result of find_repeating_period: [ok, value]
  instrumental_mask,  \* bins x frames matrix of floats
  vocal_mask,         \* bins x frames matrix of floats
  instrumental,       \* separate's instrumental output samples
  vocal,              \* separate's vocal output samples
  \* ---- PitchShifter (pitch_shift.py) ----
  shifter_sr,         \* PitchShifter.sr
  audio,              \* the input signal: [len, p, hi, lo], a pulse train
  call,               \* the entry point called and its arguments
  spc,                \* position of the current PitchShifter call
  factor,             \* pitch_shift_factor handed to the engine
  engines,            \* the engines invoked so far, in order
  marks,              \* find_pitch_marks_yin: marks emitted so far
  pos,                \* find_pitch_marks_yin: scan position
  wsola_st,           \* wsola: loop state
  out,                \* what the call returned: [kind, data, len]
  \* ---- AudioPlayer (audio_player.py) ----
  original_file,      \* AudioPlayer.original_file
  vocal_file,         \* AudioPlayer.vocal_file
  instrumental_file,  \* AudioPlayer.instrumental_file
  buttons,            \* button name -> "normal" / "disabled"
  sep_threads,        \* the separation threads started: [pc, base_name]
  pitch_thread,       \* "idle" / "running": the pitch-shift thread
  disk,               \* base names whose separated outputs were written
  after_queue,        \* callbacks posted with root.after(0, ...), oldest first
  playback            \* playback fields, the progress timers and the music

repetVars == <<n_fft, hop_length, rpc, raudio, sr, magnitude, gain, period,
               instrumental_mask, vocal_mask, instrumental, vocal>>

shiftVars == <<shifter_sr, audio, call, spc, factor, engines, marks, pos,
               wsola_st, out>>

playerVars == <<original_file, vocal_file, instrumental_file, buttons, sep_threads,
                pitch_thread, disk, after_queue, playback>>

vars == <<repetVars, shiftVars, playerVars>>

(***************************************************************************)
(* Bounds of the model.                                                    *)
(***************************************************************************)
MantBits    == 3    \* bits of significand of the modelled binary float
MaxMag      == 2    \* magnitudes are 0..MaxMag times 2^gain
MaxAudioLen == 12   \* longest input signal of the separator
MaxPat      == 3    \* longest period of a generated spectrogram row
MaxPeriod   == 4    \* largest Period passed directly to compute_repeating_mask
MaxThreads  == 2    \* separation threads started in one run of the player
MaxJobs     == 3    \* progress timers scheduled in one run of the player

(***************************************************************************)
(* Small helpers.                                                          *)
(***************************************************************************)
RECURSIVE Pow2(_)
Pow2(n) == IF n <= 0 THEN 1 ELSE 2 * Pow2(n - 1)

Min(a, b) == IF a <= b THEN a ELSE b
Max(a, b) == IF a >= b THEN a ELSE b

RECURSIVE SumTo(_, _, _)
\* sum of f(i) for i in lo..hi, f given as a function
SumTo(f, lo, hi) == IF lo > hi THEN 0 ELSE f[lo] + SumTo(f, lo + 1, hi)

(***************************************************************************)
(* Binary floating point, round to nearest, ties to even.                  *)
(***************************************************************************)
FZero == <<0, 0>>
FNaN  == <<0 - 1, 0>>   \* not a number (0 / 0)
FInf  == <<0 - 2, 0>>   \* +infinity (x / 0, x > 0)
IsFinite(a) == a[1] >= 0

RECURSIVE RoundRat(_, _, _)
\* the float nearest to (n / d) * 2^e, for n >= 0 and d > 0
RoundRat(n, d, e) ==
  IF n = 0 THEN FZero
  ELSE IF n >= d * Pow2(MantBits) THEN RoundRat(n, 2 * d, e + 1)
  ELSE IF n < d * Pow2(MantBits - 1) THEN RoundRat(2 * n, d, e - 1)
  ELSE LET q  == n \div d
           r  == n % d
           up == (2 * r > d) \/ (2 * r = d /\ (q % 2) = 1)
           q1 == IF up THEN q + 1 ELSE q
       IN  IF q1 = Pow2(MantBits) THEN <<Pow2(MantBits - 1), e + 1>>
           ELSE <<q1, e>>

FOne == RoundRat(1, 1, 0)

\* a < b, a <= b on normalised non-negative floats
FLess(a, b) ==
  IF b[1] = 0 THEN FALSE
  ELSE IF a[1] = 0 THEN TRUE
  ELSE a[2] < b[2] \/ (a[2] = b[2] /\ a[1] < b[1])
FLeq(a, b) == a = b \/ FLess(a, b)

\* a + b for a, b >= 0. An addend below a quarter of the other's last place
\* cannot change the rounded result.
FAdd(a, b) ==
  IF a[1] = 0 THEN b
  ELSE IF b[1] = 0 THEN a
  ELSE IF a[2] - b[2] > MantBits + 1 THEN a
  ELSE IF b[2] - a[2] > MantBits + 1 THEN b
  ELSE LET e == Min(a[2], b[2])
       IN  RoundRat(a[1] * Pow2(a[2] - e) + b[1] * Pow2(b[2] - e), 1, e)

\* a - b for a >= b >= 0 (a finite)
FSub(a, b) ==
  IF ~IsFinite(b) THEN FNaN
  ELSE IF b[1] = 0 THEN a
  ELSE IF a[2] - b[2] > MantBits + 1 THEN a
  ELSE LET e == Min(a[2], b[2])
       IN  RoundRat(a[1] * Pow2(a[2] - e) - b[1] * Pow2(b[2] - e), 1, e)

\* a * b for b finite
FMul(a, b) ==
  IF ~IsFinite(a) THEN FNaN
  ELSE RoundRat(a[1] * b[1], 1, a[2] + b[2])

\* a / b for finite a, b >= 0
FDiv(a, b) ==
  IF b[1] = 0 THEN (IF a[1] = 0 THEN FNaN ELSE FInf)
  ELSE RoundRat(a[1], b[1], a[2] - b[2])

\* np.minimum(a, b) for finite b: NaN propagates
FMin(a, b) ==
  IF a = FNaN THEN FNaN
  ELSE IF a = FInf THEN b
  ELSE IF FLess(b, a) THEN b ELSE a

\* the float of the magnitude v * 2^g (v a small integer: exact)
FMag(v, g) == RoundRat(v, 1, g)


(***************************************************************************)
(* REPET.find_repeating_period                                             *)
(***************************************************************************)
BeatBins == 100   \* at most this many frequency bins enter the beat spectrum

\* np.correlate(x, x, mode='full'): entry j (1-based) is the lag j - Len(x)
autocorr_full(x) ==
  LET F == Len(x)
  IN  [j \in 1..(2 * F - 1) |->
         LET lag == IF j >= F THEN j - F ELSE F - j
         IN  SumTo([t \in 1..(F - lag) |-> x[t] * x[t + lag]], 1, F - lag)]

\* The beat spectrum: the mean over the first min(bins, 100) rows of the full
\* autocorrelation, then its second half (lags 0..F-1). The model keeps the
\* sum over the rows: dividing by their number changes no comparison.
beat_spectrum(spectrogram) ==
  LET rows == Min(Len(spectrogram), BeatBins)
      F    == Len(spectrogram[1])
      full == [j \in 1..(2 * F - 1) |->
                 SumTo([i \in 1..rows |-> autocorr_full(spectrogram[i])[j]], 1, rows)]
      half == Len(full) \div 2
  IN  SubSeq(full, half + 1, Len(full))

RECURSIVE argmax_from(_, _, _, _)
\* np.argmax: the first index (1-based, within lo..hi) of the largest entry
argmax_from(s, lo, hi, best) ==
  IF lo > hi THEN best
  ELSE argmax_from(s, lo + 1, hi, IF s[lo] > s[best] THEN lo ELSE best)

argmax(s) == argmax_from(s, 2, Len(s), 1) - 1   \* 0-based, s non-empty

min_period_of(rate, hop) == rate \div hop          \* int(1.0 * sr / hop_length)
max_period_of(rate, hop) == (10 * rate) \div hop   \* int(10.0 * sr / hop_length)

\* variant: the result is returned without the floor of 1
FloorPeriod_bug(p) == p

\* return max(period, 1)
FloorPeriod(p) == Max(p, 1)

\* len(beat_spectrum): the full autocorrelation of F frames has 2F - 1 lags,
\* of which the slice [len // 2:] is kept
beat_spectrum_len(spectrogram) ==
  LET full == 2 * Len(spectrogram[1]) - 1
  IN  full - full \div 2

\* variant: the fallback takes half of the frames
fallback_period_bug(len) == len \div 2

\* period = len(beat_spectrum) // 4
fallback_period(len) == len \div 4

\* [ok |-> TRUE, value |-> Period], or ok = FALSE when np.argmax is handed an
\* empty search range and raises ValueError
find_repeating_period(spectrogram, rate, hop) ==
  LET beat == beat_spectrum(spectrogram)
      minp == min_period_of(rate, hop)
      maxp == max_period_of(rate, hop)
  IN  IF beat_spectrum_len(spectrogram) > maxp
      THEN IF minp >= maxp
           THEN [ok |-> FALSE, value |-> 0]
           ELSE [ok |-> TRUE,
                 value |-> FloorPeriod(argmax(SubSeq(beat, minp + 1, maxp)) + minp)]
      ELSE [ok |-> TRUE,
            value |-> FloorPeriod(fallback_period(beat_spectrum_len(spectrogram)))]

(***************************************************************************)
(* REPET.compute_repeating_mask                                            *)
(***************************************************************************)
\* variant: no guard against a zero denominator
eps_bug == FZero

\* eps = 1e-10 = 2^-10 / 5^10, rounded to the float format
eps == RoundRat(1, 9765625, -10)

\* the k-th smallest (k 0-based) of a non-empty sequence of floats
KthSmallest(s0, k) ==
  LET s == s0 \o << >>
      x == CHOOSE i \in 1..Len(s) :
             /\ Cardinality({j \in 1..Len(s) : FLess(s[j], s[i])}) <= k
             /\ Cardinality({j \in 1..Len(s) : FLeq(s[j], s[i])}) > k
  IN  s[x]

\* scipy.ndimage reflect boundary (d c b a | a b c d | d c b a), 0-based index
ReflectIndex(i, n) ==
  LET j == i % (2 * n)
  IN  IF j < n THEN j ELSE 2 * n - 1 - j

\* median_filter(spectrogram, size=(1, period)): per row, a window of
\* `period` frames starting period // 2 to the left, rank period // 2
median_filter(spec, p) ==
  [b \in 1..Len(spec) |->
     LET row == spec[b]
         F   == Len(row)
     IN  [t \in 1..F |->
            KthSmallest([j \in 1..p |->
                           row[ReflectIndex((t - 1) - (p \div 2) + (j - 1), F) + 1]],
                        p \div 2)]]

\* np.median of a non-empty sequence
np_median(s) ==
  LET n == Len(s)
  IN  IF (n % 2) = 1 THEN KthSmallest(s, (n - 1) \div 2)
      ELSE LET sum == FAdd(KthSmallest(s, n \div 2 - 1), KthSmallest(s, n \div 2))
           IN  IF sum[1] = 0 THEN FZero ELSE <<sum[1], sum[2] - 1>>

\* the start frames (0-based) of the segments the loop appends: for i in
\* range(num_repetitions), those with min(start + period, F) - start = period
full_segments(F, p) ==
  SelectSeq([i \in 1..(F \div p) |-> (i - 1) * p],
            LAMBDA start : Min(start + p, F) - start = p)

\* number of full segments collected by the loop
num_segments(F, p) == Len(full_segments(F, p))

\* np.tile(np.median(np.stack(segments), axis=0), (1, num_repetitions))
tiled_segment(spec, p) ==
  LET F    == Len(spec[1])
      reps == F \div p
      segs == full_segments(F, p)
      seg  == [b \in 1..Len(spec) |->
                 [j \in 1..p |->
                    np_median([k \in 1..Len(segs) |-> spec[b][segs[k] + j]])] \o << >>] \o << >>
  IN  [b \in 1..Len(spec) |->
         [t \in 1..(p * reps) |-> seg[b][((t - 1) % p) + 1]]]

\* variant: a shortfall is left unpadded
pad_width_bug(F, width) == 0

\* pad_width = num_frames - repeating_spec.shape[1]
pad_width(F, width) == F - width

\* the repeating spectrum: the median filter for fewer than 2 repetitions,
\* else the tiled median segment, trimmed or edge-padded to F frames
repeating_spec_of(spec, p) ==
  LET F    == Len(spec[1])
      reps == F \div p
  IN  IF reps < 2 THEN median_filter(spec, p)
      ELSE IF num_segments(F, p) = 0 THEN spec
      ELSE LET tiled == tiled_segment(spec, p)
               width == p * reps   \* repeating_spec.shape[1] after np.tile
           IN  IF width > F
               THEN [b \in 1..Len(spec) |-> [t \in 1..F |-> tiled[b][t]]]
               ELSE IF width < F
               THEN [b \in 1..Len(spec) |->
                       [t \in 1..(width + pad_width(F, width)) |->
                          IF t <= width THEN tiled[b][t] ELSE tiled[b][width]]]
               ELSE tiled

\* variant: the mask is returned without the clamp
ClampMask_bug(m) == m

\* the clamp of the mask: np.minimum(mask, 1.0)
ClampMask(m) == FMin(m, FOne)

MaskValue(rep, mag) == ClampMask(FDiv(FAdd(rep, eps), FAdd(mag, eps)))

\* mask = np.minimum((repeating_spec + eps) / (spectrogram + eps), 1.0)
compute_repeating_mask(spec, p) ==
  LET rep == repeating_spec_of(spec, p)
  IN  [b \in 1..Len(rep) |->
         [t \in 1..Len(rep[b]) |-> MaskValue(rep[b][t], spec[b][t])]]

\* variant: the foreground mask is taken from the squared (power) mask
OneMinus_bug(m) == FSub(FOne, FMul(m, m))

\* vocal_mask = 1.0 - instrumental_mask
OneMinus(m) == FSub(FOne, m)

vocal_mask_of(mask) ==
  [b \in 1..Len(mask) |-> [t \in 1..Len(mask[b]) |-> OneMinus(mask[b][t])]]


(***************************************************************************)
(* PitchShifter: values.                                                   *)
(*   A factor is [k, v]: k = "num" and v the factor in units of            *)
(*   1 / FactorScale, or k = "nan". Semitones are [k, v]: k = "num" and v  *)
(*   in thousandths of a semitone, or k = "neginf" / "nan" (what           *)
(*   12 * np.log2 gives for a factor of 0 / below 0).                      *)
(*   A signal is a pulse train [len, p, hi, lo]: sample i (0-based) is hi  *)
(*   when i % p = 0 and lo otherwise.                                      *)
(***************************************************************************)
FactorScale  == 100000
NumF(v)      == [k |-> "num", v |-> v]
NaNF         == [k |-> "nan", v |-> 0]
NumS(v)      == [k |-> "num", v |-> v]
NegInfS      == [k |-> "neginf", v |-> 0]
NaNS         == [k |-> "nan", v |-> 0]

Abs(x) == IF x < 0 THEN 0 - x ELSE x

AudioAt(a, i) == IF (i % a.p) = 0 THEN a.hi ELSE a.lo
\* every sample is 0: sample 0 is hi, and lo occurs when len >= 2 and p >= 2
AudioIsZero(a) ==
  /\ a.len >= 1 => a.hi = 0
  /\ (a.len >= 2 /\ a.p >= 2) => a.lo = 0

NoOut     == [kind |-> "none", data |-> "", len |-> 0]
ErrorOut  == [kind |-> "error", data |-> "", len |-> 0]
\* `return audio`: the input itself
InputOut(a) == [kind |-> "signal", data |-> "input", len |-> a.len]
\* a fresh buffer of n samples, all zero or holding processed samples
BufferOut(n, zero) ==
  [kind |-> "signal", data |-> IF zero THEN "zeros" ELSE "processed", len |-> n]

NoCall  == [op |-> "", semitones |-> NumS(0), method |-> "", factor |-> NumF(0),
            range |-> <<0, 0>>]
NoWsola == [i |-> 0, R |-> 0, num_frames |-> 0, hop_analysis |-> 0,
            input_pos |-> 0, output_pos |-> 0, written |-> 0, broke |-> FALSE,
            natural_pos |-> 0, searched |-> FALSE, template |-> <<0, 0>>]

\* 2 ** (semitones / 12.0), to 1 / FactorScale
Pow2Semitones(ms) ==
  CASE ms = 0 - 12000 -> 50000
    [] ms = 0 - 10    -> 99942
    [] ms = 0         -> 100000
    [] ms = 5         -> 100029
    [] ms = 10        -> 100058
    [] ms = 20        -> 100116
    [] ms = 5000      -> 133484
    [] ms = 12000     -> 200000
    [] ms = 60000     -> 3200000

semitones_to_factor(s) ==
  IF s.k = "nan" THEN NaNF
  ELSE IF s.k = "neginf" THEN NumF(0)
  ELSE NumF(Pow2Semitones(s.v))

\* 12 * np.log2(pitch_shift_factor)
factor_to_semitones(f) ==
  IF f < 0 THEN NaNS
  ELSE IF f = 0 THEN NegInfS
  ELSE NumS(CASE f = 50000  -> 0 - 12000
              [] f = 100000 -> 0
              [] f = 200000 -> 12000)

\* int(n / factor) for an integer n >= 0: [ok, value]; the division raises
\* for a factor of 0 and int() raises for NaN
TruncDiv(n, f) ==
  IF f.k = "nan" \/ f.v = 0 THEN [ok |-> FALSE, value |-> 0]
  ELSE IF f.v > 0 THEN [ok |-> TRUE, value |-> (n * FactorScale) \div f.v]
  ELSE [ok |-> TRUE, value |-> 0 - ((n * FactorScale) \div (0 - f.v))]

\* int(a / b) for integers, b > 0: truncation towards zero
TruncQuot(a, b) == IF a >= 0 THEN a \div b ELSE 0 - ((0 - a) \div b)

IdentityBand == 100   \* abs(pitch_shift_factor - 1.0) < 0.001
SemitoneBand == 10    \* abs(semitones) < 0.01

InIdentityBand(f) == f.k = "num" /\ Abs(f.v - FactorScale) < IdentityBand

\* variant: the comparison of the fast path is reversed
InSemitoneBand_bug(s) == s.k = "num" /\ Abs(s.v) > SemitoneBand

\* abs(semitones) < 0.01
InSemitoneBand(s) == s.k = "num" /\ Abs(s.v) < SemitoneBand

ValidMethods == {"td_psola", "phase_vocoder", "wsola"}

(***************************************************************************)
(* PitchShifter.phase_vocoder: librosa.effects.pitch_shift returns a       *)
(* signal of the input's length; a factor that is not positive gives       *)
(* n_steps = -inf or NaN, which the library call does not survive.         *)
(***************************************************************************)
pitch_shift_length(a) == a.len

phase_vocoder(a, f) ==
  IF f.k = "num" /\ f.v > 0
  THEN BufferOut(pitch_shift_length(a), AudioIsZero(a))
  ELSE ErrorOut

(***************************************************************************)
(* PitchShifter.find_pitch_marks_yin                                       *)
(***************************************************************************)
PsolaFmin == 80
PsolaFmax == 500

yin_max_period(rate, fmin) == rate \div fmin
yin_min_period(rate, fmax) == rate \div fmax

\* autocorrelation of audio[p0 : p0 + L] at lag k
segment_autocorr(a, p0, L, k) ==
  SumTo([t \in 0..(L - 1 - k) |-> AudioAt(a, p0 + t) * AudioAt(a, p0 + t + k)],
        0, L - 1 - k)

\* len(valid_autocorr): the slice autocorr[min_period:max_period] of the
\* segment_len lags
valid_autocorr_len(a, p0, minp, maxp) ==
  LET L == Min(maxp * 2, a.len - p0)
  IN  Max(0, Min(maxp, L) - Min(minp, L))

\* variant: the lag of the peak is taken without min_period
local_period_bug(a, p0, minp, maxp) ==
  LET L     == Min(maxp * 2, a.len - p0)
      n     == valid_autocorr_len(a, p0, minp, maxp)
      valid == [j \in 1..n |-> segment_autocorr(a, p0, L, minp + j - 1)]
  IN  IF n > 0 THEN argmax(valid) ELSE (minp + maxp) \div 2

\* the period estimated at scan position p0
local_period(a, p0, minp, maxp) ==
  LET L     == Min(maxp * 2, a.len - p0)
      n     == valid_autocorr_len(a, p0, minp, maxp)
      valid == [j \in 1..n |-> segment_autocorr(a, p0, L, minp + j - 1)]
  IN  IF n > 0 THEN minp + argmax(valid) ELSE (minp + maxp) \div 2

\* the while condition and the break on a short segment
scan_continues(a, p0, maxp) ==
  /\ p0 < a.len - maxp
  /\ Min(maxp * 2, a.len - p0) >= maxp

\* variant: the mark is appended after the position has advanced
emitted_mark_bug(p0, period_) == p0 + period_

\* marks.append(pos)
emitted_mark(p0, period_) == p0

YinFmaxDefault == 400

\* the marks find_pitch_marks_yin returns
MarksOut(ms) == [kind |-> "marks", data |-> "", len |-> Len(ms)]

(***************************************************************************)
(* PitchShifter.td_psola: the grain loop                                   *)
(***************************************************************************)
MinMarks    == 4
MinGrainLen == 8

\* variant: the fallback is taken for fewer than 3 marks only
needs_fallback_bug(ms) == Len(ms) < MinMarks - 1

\* if len(marks) < 4
needs_fallback(ms) == Len(ms) < MinMarks

IntKth(s, k) ==
  LET x == CHOOSE i \in 1..Len(s) :
             /\ Cardinality({j \in 1..Len(s) : s[j] < s[i]}) <= k
             /\ Cardinality({j \in 1..Len(s) : s[j] <= s[i]}) > k
  IN  s[x]

\* int(np.median(np.diff(marks)))
avg_period_of(ms) ==
  LET d == [i \in 1..(Len(ms) - 1) |-> ms[i + 1] - ms[i]]
      n == Len(d)
  IN  IF (n % 2) = 1 THEN IntKth(d, (n - 1) \div 2)
      ELSE (IntKth(d, n \div 2 - 1) + IntKth(d, n \div 2)) \div 2

\* variant: the source range keeps its end when the destination is clipped
grain_end_clip_bug(new_len, out_end0, n) == new_len

\* grain_end_clip = len(resampled_grain), reduced by the overhang
\* out_end - len(output) when the grain runs past the end of the output
grain_end_clip(new_len, out_end0, n) ==
  IF out_end0 > n THEN new_len - (out_end0 - n) ELSE new_len

\* the grain at marks[i] (i 0-based): what the loop body computes
grain_at(a, ms, f, i) ==
  LET avg          == avg_period_of(ms)
      grain_len    == avg * 2
      overlap_len  == avg
      mark_present == ms[i + 1]
      grain_start  == Max(0, mark_present - grain_len \div 2 - overlap_len)
      grain_end    == Min(a.len, mark_present + grain_len \div 2 + overlap_len)
      actual       == Max(0, grain_end - grain_start)
      short        == actual < grain_len \div 2
      nl           == TruncDiv(actual, f)
      new_len      == nl.value
      out_start0   == mark_present - new_len \div 2
      out_end0     == out_start0 + new_len
      start_clip   == IF out_start0 < 0 THEN 0 - out_start0 ELSE 0
      out_start    == Max(out_start0, 0)
      end_clip     == grain_end_clip(new_len, out_end0, a.len)
      out_end      == Min(out_end0, a.len)
  IN  [short   |-> short,
       raises  |-> ~short /\ ~nl.ok,
       resampled |-> ~short /\ nl.ok /\ new_len > MinGrainLen,
       new_len |-> new_len,
       out_start |-> out_start, out_end |-> out_end,
       start_clip |-> start_clip, end_clip |-> end_clip,
       added   |-> /\ ~short /\ nl.ok /\ new_len > MinGrainLen
                   /\ out_end > out_start /\ end_clip > start_clip]

grain_indices(ms) == 1..(Len(ms) - 3)

\* output = np.zeros(len(audio))
td_psola_output_len(a) == a.len

\* variant: the overlap-add accumulates into the input (output = audio)
td_psola_target_bug == "audio"

\* the buffer output[out_start:out_end] += ... writes: the one np.zeros made
td_psola_target == "output"

\* the input signal after the stores of a call: changed only by a store into
\* the input buffer itself
after_stores(a, target, stored) ==
  IF target = "audio" /\ stored THEN [a EXCEPT !.hi = 0 - 1] ELSE a

\* td_psola after the pitch marks are found (at least MinMarks of them)
td_psola_synthesis(a, ms, f) ==
  IF \E i \in grain_indices(ms) : grain_at(a, ms, f, i).raises
  THEN ErrorOut
  ELSE BufferOut(td_psola_output_len(a),
                 AudioIsZero(a) \/ ~\E i \in grain_indices(ms) : grain_at(a, ms, f, i).added)

(***************************************************************************)
(* PitchShifter.wsola                                                      *)
(***************************************************************************)
frame_size     == 2048
hop_synthesis  == 512
MinHopAnalysis == 32
search_range   == 50
template_size  == frame_size \div 4

wsola_resampled_len(a, f) == TruncDiv(a.len, f)

\* variant: the output buffer has the length of the resampled signal
wsola_output_len_bug(target_len, R) == R

\* output = np.zeros(target_len), target_len = len(audio)
wsola_output_len(target_len, R) == target_len

\* variant: the frames are planned without room for a whole frame
wsola_num_frames_bug(target_len) == TruncQuot(target_len, hop_synthesis)

\* num_frames = int((target_len - frame_size) / hop_synthesis)
wsola_num_frames(target_len) == TruncQuot(target_len - frame_size, hop_synthesis)

wsola_hop_analysis(R, target_len) ==
  Max((hop_synthesis * R) \div target_len, MinHopAnalysis)

\* if i > 0 and natural_pos < len(resampled) - frame_size
wsola_searches(i, natural_pos, R) == i > 0 /\ natural_pos < R - frame_size

\* variant: the end of the search is not clipped to the resampled signal
wsola_search_end_bug(natural_pos, R) == natural_pos + search_range

\* search_end = min(len(resampled) - frame_size, natural_pos + search_range)
wsola_search_end(natural_pos, R) == Min(R - frame_size, natural_pos + search_range)

\* template = output[max(0, output_pos - template_size):output_pos], as
\* <<start, end>>
wsola_template(output_pos) == <<Max(0, output_pos - template_size), output_pos>>

\* the read positions the similarity search can select on frame i
wsola_candidates(i, natural_pos, R) ==
  IF wsola_searches(i, natural_pos, R)
  THEN LET search_start == Max(0, natural_pos - search_range)
           search_end   == wsola_search_end(natural_pos, R)
       IN  IF search_start < search_end THEN search_start..(search_end - 1)
           ELSE {natural_pos}
  ELSE {natural_pos}

(***************************************************************************)
(* PitchShifter.shift_pitch_semitones: what the facade does with           *)
(* (semitones, method): return the input, raise, or enter an engine.       *)
(***************************************************************************)
facade(a, s, m) ==
  IF InSemitoneBand(s) THEN [spc |-> "done", out |-> InputOut(a), factor |-> NumF(0)]
  ELSE IF m \in ValidMethods
       THEN [spc |-> m, out |-> NoOut, factor |-> semitones_to_factor(s)]
       ELSE [spc |-> "error", out |-> ErrorOut, factor |-> semitones_to_factor(s)]

\* no PitchShifter call is in progress
ShiftOff ==
  /\ shifter_sr = 0
  /\ audio = [len |-> 0, p |-> 1, hi |-> 0, lo |-> 0]
  /\ call = NoCall /\ spc = "off" /\ factor = NumF(0)
  /\ engines = << >> /\ marks = << >> /\ pos = 0
  /\ wsola_st = NoWsola /\ out = NoOut

(***************************************************************************)
(* AudioPlayer (audio_player.py): the part of the player's state that its  *)
(* handlers, background threads and Tk callbacks share.                    *)
(*   A file is named by the base name the file dialog returned; the output *)
(*   paths f"{base_name}_vocal.wav" and f"{base_name}_instrumental.wav"    *)
(*   are named by the base name they derive from. "none" stands for None.  *)
(***************************************************************************)
NoFile == "none"
Files  == {"a", "b"}

\* the three Apply buttons are always configured together: apply_btns
ButtonNames == {"separate_btn", "original_btn", "vocal_btn", "instrumental_btn",
                "apply_btns"}

\* update_progress_job = 0 stands for None; timers holds the ids of the
\* root.after(100, self.update_progress) callbacks still pending
NoPlayback ==
  [is_playing |-> FALSE, is_paused |-> FALSE, seeking |-> FALSE,
   update_progress_job |-> 0, timers |-> {}, next_job |-> 0, busy |-> FALSE,
   play_pause_btn |-> "disabled", stop_btn |-> "disabled"]

\* the state AudioPlayer.__init__ and create_widgets leave
PlayerIdle ==
  /\ original_file = NoFile /\ vocal_file = NoFile /\ instrumental_file = NoFile
  /\ buttons = [b \in ButtonNames |-> "disabled"]
  /\ sep_threads = << >> /\ pitch_thread = "idle" /\ disk = {}
  /\ after_queue = << >>
  /\ playback = NoPlayback

(***************************************************************************)
(* REPET.separate, in the steps its progress messages delimit.             *)
(***************************************************************************)
\* librosa.stft (center=True): 1 + n_fft // 2 bins, 1 + len // hop frames
stft_bins(nfft) == 1 + nfft \div 2
stft_frames(len, hop) == 1 + len \div hop

IsZeroMatrix(m) == \A b \in 1..Len(m) : \A t \in 1..Len(m[b]) : m[b][t] = 0

\* magnitude as floats (\o << >> leaves a sequence as it is and has it
\* evaluated once)
FloatSpec(mag, g) ==
  [b \in 1..Len(mag) |-> [t \in 1..Len(mag[b]) |-> FMag(mag[b][t], g)] \o << >>] \o << >>

\* |mask * magnitude * exp(1j * phase)|
apply_mask(mask, spec) ==
  [b \in 1..Len(spec) |-> [t \in 1..Len(spec[b]) |-> FMul(mask[b][t], spec[b][t])]]

SpecClass(S) ==
  IF \E b \in 1..Len(S) : \E t \in 1..Len(S[b]) : ~IsFinite(S[b][t]) THEN "nan"
  ELSE IF \A b \in 1..Len(S) : \A t \in 1..Len(S[b]) : S[b][t] = FZero THEN "zero"
  ELSE "finite"

NoLength == 0 - 1   \* istft called without length=

\* librosa.istft(S, hop_length=hop, length=length): `length` samples (or
\* hop * (frames - 1) without length=); a zero spectrum gives zero samples
istft(S, hop, length) ==
  LET n == IF length = NoLength THEN hop * (Len(S[1]) - 1) ELSE length
      c == SpecClass(S)
  IN  [i \in 1..n |-> c]

\* variant: istft is called without length=
istft_length_bug(a) == NoLength

\* the length separate asks istft for
istft_length(a) == Len(a)

(***************************************************************************)
(* Inputs of the separator.                                                *)
(***************************************************************************)
TinyGain == 35   \* magnitudes of the order of eps carry the exponent -TinyGain

RepetConfigs == { <<4, 1>>, <<12, 3>>, <<2, 11>> }   \* <<n_fft, hop_length>>
SampleRates  == { 1, 3 }
Gains        == { 0, 0 - TinyGain }

PulseRow(F, p, k, hi, lo) == [t \in 1..F |-> IF ((t - 1) % p) = k THEN hi ELSE lo]

Rows(F) ==
  { [t \in 1..F |-> 0] } \cup
  { PulseRow(F, p, k, hi, lo) :
      p \in 1..MaxPat, k \in 0..1, hi \in {1, MaxMag}, lo \in {0, MaxMag - 1} }

Spectrograms(bins, F) ==
  { [b \in 1..bins |-> IF (b % 2) = 1 THEN r1 ELSE r2] :
      r1 \in Rows(F), r2 \in { [t \in 1..F |-> 0], [t \in 1..F |-> MaxMag] } }

\* create_test_audio: a pattern of 2 seconds (2 * sr / hop frames) tiled over
\* the whole signal
pattern_frames(rate, hop) == (2 * rate) \div hop

TiledSpectrograms(bins, F, rate, hop) ==
  IF ((2 * rate) % hop) = 0 /\ pattern_frames(rate, hop) >= 1
  THEN { [b \in 1..bins |-> IF (b % 2) = 1
                              THEN PulseRow(F, pattern_frames(rate, hop), 0, MaxMag, 0)
                              ELSE [t \in 1..F |-> 0]] }
  ELSE { }

\* test_repet_basic: create_test_audio(duration=8) at sr = 22050, separated
\* by REPET(n_fft=2048, hop_length=512)
ScenarioSeconds == 8
ScenarioRate    == 22050
ScenarioFft     == 2048
ScenarioHop     == 512
ScenarioLen     == ScenarioSeconds * ScenarioRate   \* int(sr * duration)
ScenarioFrames  == stft_frames(ScenarioLen, ScenarioHop)

\* the magnitude spectrogram of the scenario, by its shape: no entry of it is
\* read on the branch the scenario takes
ScenarioSpectrogram ==
  [b \in 1..stft_bins(ScenarioFft) |-> [t \in 1..ScenarioFrames |-> 1]]

ScenarioPeriod == find_repeating_period(ScenarioSpectrogram, ScenarioRate, ScenarioHop)

RepetIdle ==
  /\ raudio = << >> /\ sr = 0 /\ magnitude = << >> /\ gain = 0
  /\ period = [ok |-> TRUE, value |-> 0]
  /\ instrumental_mask = << >> /\ vocal_mask = << >>
  /\ instrumental = << >> /\ vocal = << >>

\* REPET(n_fft, hop_length)
RepetInit ==
  /\ \E c \in RepetConfigs : n_fft = c[1] /\ hop_length = c[2]
  /\ rpc = "init"
  /\ RepetIdle
  /\ ShiftOff
  /\ PlayerIdle

\* load_audio, compute_stft, np.abs: the file holds N samples at rate r; a
\* silent signal has a zero spectrogram and only a silent one has
LoadAndStft ==
  /\ rpc = "init"
  /\ \E N \in 0..MaxAudioLen, r \in SampleRates, g \in Gains :
       \E m \in Spectrograms(stft_bins(n_fft), stft_frames(N, hop_length))
                   \cup TiledSpectrograms(stft_bins(n_fft), stft_frames(N, hop_length),
                                          r, hop_length) :
         /\ (N = 0) => IsZeroMatrix(m)
         /\ IsZeroMatrix(m) => g = 0
         /\ raudio' = [i \in 1..N |-> IF IsZeroMatrix(m) THEN 0 ELSE 1]
         /\ sr' = r
         /\ magnitude' = m
         /\ gain' = g
  /\ rpc' = "stft"
  /\ UNCHANGED <<playerVars, shiftVars, n_fft, hop_length, period, instrumental_mask, vocal_mask,
                 instrumental, vocal>>

\* period = self.find_repeating_period(magnitude, sr)
FindRepeatingPeriod ==
  /\ rpc = "stft"
  /\ period' = find_repeating_period(magnitude, sr, hop_length)
  /\ rpc' = IF period'.ok THEN "period" ELSE "error"
  /\ UNCHANGED <<playerVars, shiftVars, n_fft, hop_length, raudio, sr, magnitude, gain,
                 instrumental_mask, vocal_mask, instrumental, vocal>>

\* instrumental_mask = compute_repeating_mask(magnitude, period);
\* vocal_mask = 1.0 - instrumental_mask
ComputeMasks ==
  /\ rpc = "period"
  /\ instrumental_mask' = compute_repeating_mask(FloatSpec(magnitude, gain), period.value)
  /\ vocal_mask' = vocal_mask_of(instrumental_mask')
  /\ rpc' = "mask"
  /\ UNCHANGED <<playerVars, shiftVars, n_fft, hop_length, raudio, sr, magnitude, gain, period,
                 instrumental, vocal>>

\* apply the masks and invert both spectra
Reconstruct ==
  /\ rpc = "mask"
  /\ instrumental' = istft(apply_mask(instrumental_mask, FloatSpec(magnitude, gain)),
                           hop_length, istft_length(raudio))
  /\ vocal' = istft(apply_mask(vocal_mask, FloatSpec(magnitude, gain)),
                    hop_length, istft_length(raudio))
  /\ rpc' = "done"
  /\ UNCHANGED <<playerVars, shiftVars, n_fft, hop_length, raudio, sr, magnitude, gain, period,
                 instrumental_mask, vocal_mask>>

\* compute_repeating_mask called on its own with any Period >= 1
CallComputeRepeatingMask ==
  /\ rpc = "stft"
  /\ \E p \in 1..MaxPeriod :
       /\ period' = [ok |-> TRUE, value |-> p]
       /\ instrumental_mask' = compute_repeating_mask(FloatSpec(magnitude, gain), p)
  /\ rpc' = "maskonly"
  /\ UNCHANGED <<playerVars, shiftVars, n_fft, hop_length, raudio, sr, magnitude, gain, vocal_mask,
                 instrumental, vocal>>

RepetNext ==
  \/ LoadAndStft
  \/ FindRepeatingPeriod
  \/ ComputeMasks
  \/ Reconstruct
  \/ CallComputeRepeatingMask

RepetSpec == RepetInit /\ [][RepetNext]_vars


(***************************************************************************)
(* Inputs of the pitch shifter.                                            *)
(***************************************************************************)
MaxShortLen   == 30   \* longest signal on which every pattern is tried
MaxStuckMarks == 5    \* marks kept of a scan that no longer advances

ShifterRates == { 400, 1000 }
ShortLens    == { 0, 1, 13, 20, MaxShortLen }
LongLens     == { 3260, 5120 }
Patterns     == { <<1, 0, 0>>, <<3, 2, 0>>, <<11, 2, 1>> }   \* <<p, hi, lo>>
LongPattern  == <<11, 2, 0>>

MkAudio(n, q) == [len |-> n, p |-> q[1], hi |-> q[2], lo |-> q[3]]

AudioInputs ==
  { MkAudio(n, q) : n \in ShortLens, q \in Patterns } \cup
  { MkAudio(n, LongPattern) : n \in LongLens }

SemitoneValues == { 0 - 12000, 0 - 10, 0, 5, 10, 20, 5000, 12000, 60000 }
TargetSemitones == { 0, 12000 }
Methods        == ValidMethods \cup { "", "psola" }
EngineFactors  == { 0 - FactorScale, 0, 50000, FactorScale, 200000, 3200000 }
FileFactors    == { 0 - FactorScale, 0, 50000, FactorScale, 200000 }
\* <<fmin, fmax>>: the defaults, the range td_psola passes, a narrow range
TdPsolaRange   == <<PsolaFmin, PsolaFmax>>
YinRanges      == { <<PsolaFmin, YinFmaxDefault>>, TdPsolaRange,
                    <<YinFmaxDefault, PsolaFmax>> }

RepetOff ==
  /\ n_fft = 0 /\ hop_length = 0 /\ rpc = "off"
  /\ RepetIdle

\* PitchShifter(sr), and a signal to shift
ShiftInit ==
  /\ shifter_sr \in ShifterRates
  /\ audio \in AudioInputs
  /\ call = NoCall /\ spc = "idle" /\ factor = NumF(0)
  /\ engines = << >> /\ marks = << >> /\ pos = 0
  /\ wsola_st = NoWsola /\ out = NoOut
  /\ RepetOff
  /\ PlayerIdle

Enter(op, s, m, f) ==
  LET d == facade(audio, s, m)
  IN  /\ call' = [op |-> op, semitones |-> s, method |-> m, factor |-> f,
                   range |-> TdPsolaRange]
      /\ spc' = d.spc
      /\ out' = d.out
      /\ factor' = d.factor
      /\ UNCHANGED <<playerVars, repetVars, shifter_sr, audio, engines, marks, pos, wsola_st>>

\* shift_pitch_semitones(audio, semitones, method)
ShiftPitchSemitones ==
  /\ spc = "idle"
  /\ \E ms \in SemitoneValues, m \in Methods :
       Enter("shift_pitch_semitones", NumS(ms), m, NumF(0))

\* shift_to_target_pitch(audio, target_pitch_hz, method): the semitones come
\* from the pitch estimate, then shift_pitch_semitones
ShiftToTargetPitch ==
  /\ spc = "idle"
  /\ \E ms \in TargetSemitones, m \in Methods :
       Enter("shift_to_target_pitch", NumS(ms), m, NumF(0))

\* process_file(..., pitch_shift_factor=f, method=m)
ProcessFileFactor ==
  /\ spc = "idle"
  /\ \E f \in FileFactors, m \in Methods :
       Enter("process_file", factor_to_semitones(f), m, NumF(f))

\* td_psola / phase_vocoder / wsola called directly with a factor
CallEngine ==
  /\ spc = "idle"
  /\ \E e \in ValidMethods, f \in {NumF(v) : v \in EngineFactors} \cup {NaNF} :
       /\ call' = [op |-> e, semitones |-> NumS(0), method |-> e, factor |-> f,
                   range |-> TdPsolaRange]
       /\ spc' = e
       /\ factor' = f
  /\ UNCHANGED <<playerVars, repetVars, shifter_sr, audio, engines, marks, pos, wsola_st, out>>

\* td_psola: the identity test, then the pitch-mark scan starts
TdPsolaEnter ==
  /\ spc = "td_psola"
  /\ engines' = Append(engines, "td_psola")
  /\ IF InIdentityBand(factor)
     THEN spc' = "done" /\ out' = InputOut(audio)
     ELSE spc' = "scan" /\ out' = out
  /\ marks' = << >> /\ pos' = 0
  /\ UNCHANGED <<playerVars, repetVars, shifter_sr, audio, call, factor, wsola_st>>

\* find_pitch_marks_yin(audio, fmin, fmax) called on its own
CallFindPitchMarks ==
  /\ spc = "idle" /\ audio.len <= MaxShortLen
  /\ \E r \in YinRanges :
       call' = [op |-> "find_pitch_marks_yin", semitones |-> NumS(0), method |-> "",
                factor |-> NumF(0), range |-> r]
  /\ spc' = "scan"
  /\ marks' = << >> /\ pos' = 0
  /\ UNCHANGED <<playerVars, repetVars, shifter_sr, audio, factor, engines, wsola_st, out>>

\* max_period and min_period of the scan in progress
scan_max_period == yin_max_period(shifter_sr, call.range[1])
scan_min_period == yin_min_period(shifter_sr, call.range[2])

\* find_pitch_marks_yin: one iteration of the scan loop
ScanStep ==
  /\ spc = "scan"
  /\ scan_continues(audio, pos, scan_max_period)
  /\ LET period_ == local_period(audio, pos, scan_min_period, scan_max_period)
     IN  /\ period_ > 0 \/ Len(marks) < MaxStuckMarks
         /\ marks' = Append(marks, emitted_mark(pos, period_))
         /\ pos' = pos + period_
  /\ UNCHANGED <<playerVars, repetVars, shifter_sr, audio, call, spc, factor, engines, wsola_st, out>>

\* the scan is over: the marks are returned; in td_psola fewer than 4 marks
\* fall back to the phase vocoder
ScanDone ==
  /\ spc = "scan"
  /\ ~scan_continues(audio, pos, scan_max_period)
  /\ IF call.op = "find_pitch_marks_yin"
     THEN /\ engines' = engines
          /\ out' = MarksOut(marks)
          /\ spc' = "done"
     ELSE IF needs_fallback(marks)
     THEN /\ engines' = Append(engines, "phase_vocoder")
          /\ out' = phase_vocoder(audio, factor)
          /\ spc' = IF out'.kind = "error" THEN "error" ELSE "done"
     ELSE /\ engines' = engines
          /\ out' = out
          /\ spc' = "grains"
  /\ UNCHANGED <<playerVars, repetVars, shifter_sr, audio, call, factor, marks, pos, wsola_st>>

\* td_psola: the grain loop, the normalisations and the return
TdPsolaSynthesize ==
  /\ spc = "grains"
  /\ out' = td_psola_synthesis(audio, marks, factor)
  /\ spc' = IF out'.kind = "error" THEN "error" ELSE "done"
  /\ audio' = after_stores(audio, td_psola_target,
                           \E i \in grain_indices(marks) :
                             grain_at(audio, marks, factor, i).added)
  /\ UNCHANGED <<playerVars, repetVars, shifter_sr, call, factor, engines, marks, pos, wsola_st>>

\* phase_vocoder
PhaseVocoderRun ==
  /\ spc = "phase_vocoder"
  /\ engines' = Append(engines, "phase_vocoder")
  /\ out' = phase_vocoder(audio, factor)
  /\ spc' = IF out'.kind = "error" THEN "error" ELSE "done"
  /\ UNCHANGED <<playerVars, repetVars, shifter_sr, audio, call, factor, marks, pos, wsola_st>>

\* wsola: the identity test, the resampling, the loop set-up
WsolaEnter ==
  /\ spc = "wsola"
  /\ engines' = Append(engines, "wsola")
  /\ LET rl == wsola_resampled_len(audio, factor)
     IN  IF InIdentityBand(factor)
         THEN spc' = "done" /\ out' = InputOut(audio) /\ wsola_st' = wsola_st
         ELSE IF ~rl.ok
         THEN spc' = "error" /\ out' = ErrorOut /\ wsola_st' = wsola_st
         ELSE IF ~(rl.value > 0)
         THEN spc' = "done" /\ out' = InputOut(audio) /\ wsola_st' = wsola_st
         ELSE /\ spc' = "wsola_loop" /\ out' = out
              /\ wsola_st' = [i |-> 0, R |-> rl.value,
                              num_frames |-> wsola_num_frames(audio.len),
                              hop_analysis |-> wsola_hop_analysis(rl.value, audio.len),
                              input_pos |-> 0, output_pos |-> 0, written |-> 0,
                              broke |-> FALSE, natural_pos |-> 0,
                              searched |-> FALSE, template |-> <<0, 0>>]
  /\ UNCHANGED <<playerVars, repetVars, shifter_sr, audio, call, factor, marks, pos>>

\* wsola: one synthesis frame
WsolaFrame ==
  /\ spc = "wsola_loop"
  /\ wsola_st.i < wsola_st.num_frames /\ ~wsola_st.broke
  /\ LET natural_pos == wsola_st.i * wsola_st.hop_analysis
         searched    == wsola_searches(wsola_st.i, natural_pos, wsola_st.R)
         looked      == [wsola_st EXCEPT
                           !.natural_pos = natural_pos,
                           !.searched = searched,
                           !.template = IF searched THEN wsola_template(wsola_st.output_pos)
                                        ELSE <<0, 0>>]
     IN  \E ip \in wsola_candidates(wsola_st.i, natural_pos, wsola_st.R) :
           IF ip + frame_size <= wsola_st.R \/ wsola_st.R - ip > 0
           THEN LET end_pos   == Min(audio.len, wsola_st.output_pos + frame_size)
                    frame_len == end_pos - wsola_st.output_pos
                IN  wsola_st' = [looked EXCEPT
                                   !.i = @ + 1,
                                   !.input_pos = ip,
                                   !.written = IF frame_len > 0 THEN Max(@, end_pos) ELSE @,
                                   !.output_pos = @ + hop_synthesis]
           ELSE wsola_st' = [looked EXCEPT !.input_pos = ip, !.broke = TRUE]
  /\ UNCHANGED <<playerVars, repetVars, shifter_sr, audio, call, spc, factor, engines, marks, pos, out>>

\* wsola: the loop is over; normalise and return the output buffer
WsolaFinish ==
  /\ spc = "wsola_loop"
  /\ wsola_st.i >= wsola_st.num_frames \/ wsola_st.broke
  /\ out' = BufferOut(wsola_output_len(audio.len, wsola_st.R),
                      AudioIsZero(audio) \/ wsola_st.written = 0)
  /\ spc' = "done"
  /\ UNCHANGED <<playerVars, repetVars, shifter_sr, audio, call, factor, engines, marks, pos, wsola_st>>

ShiftNext ==
  \/ ShiftPitchSemitones
  \/ ShiftToTargetPitch
  \/ ProcessFileFactor
  \/ CallEngine
  \/ CallFindPitchMarks
  \/ TdPsolaEnter
  \/ ScanStep
  \/ ScanDone
  \/ TdPsolaSynthesize
  \/ PhaseVocoderRun
  \/ WsolaEnter
  \/ WsolaFrame
  \/ WsolaFinish

Spec == ShiftInit /\ [][ShiftNext]_vars

(***************************************************************************)
(* Both classes: an instance of either, and the operations of both.        *)
(***************************************************************************)
CoreInit == ShiftInit \/ RepetInit

CoreNext == ShiftNext \/ RepetNext

CoreSpec == CoreInit /\ [][CoreNext]_vars

(***************************************************************************)
(* AudioPlayer: handlers run one at a time on the Tk main loop; the        *)
(* background threads take their steps in between.                         *)
(***************************************************************************)
\* stop_playback
stop_playback(pb) ==
  [pb EXCEPT !.busy = FALSE, !.is_playing = FALSE, !.is_paused = FALSE,
             !.timers = IF pb.update_progress_job # 0
                        THEN @ \ {pb.update_progress_job} ELSE @,
             !.update_progress_job = 0,
             !.play_pause_btn = "disabled", !.stop_btn = "disabled"]

\* update_progress: reschedules itself while the music plays
update_progress(pb) ==
  IF pb.is_playing /\ ~pb.is_paused /\ ~pb.seeking
  THEN IF pb.busy
       THEN [pb EXCEPT !.next_job = @ + 1,
                       !.timers = @ \cup {pb.next_job + 1},
                       !.update_progress_job = pb.next_job + 1]
       ELSE stop_playback(pb)
  ELSE pb

\* load_audio: the dialog returned a path
LoadAudio ==
  /\ \E filepath \in Files : original_file' = filepath
  /\ vocal_file' = NoFile /\ instrumental_file' = NoFile
  /\ buttons' = [buttons EXCEPT !["separate_btn"] = "normal",
                                !["original_btn"] = "normal",
                                !["vocal_btn"] = "disabled",
                                !["instrumental_btn"] = "disabled",
                                !["apply_btns"] = "disabled"]
  /\ UNCHANGED <<repetVars, shiftVars, sep_threads, pitch_thread, disk, after_queue,
                 playback>>

\* separate_audio: a click on the enabled Separate button
SeparateAudio ==
  /\ buttons["separate_btn"] = "normal" /\ original_file # NoFile
  /\ Len(sep_threads) < MaxThreads
  /\ buttons' = [buttons EXCEPT !["separate_btn"] = "disabled"]
  /\ sep_threads' = Append(sep_threads, [pc |-> "start", base_name |-> NoFile])
  /\ UNCHANGED <<repetVars, shiftVars, original_file, vocal_file, instrumental_file,
                 pitch_thread, disk, after_queue, playback>>

\* _separate_audio_thread: base_name = os.path.splitext(self.original_file)[0]
SepThreadName ==
  \E t \in 1..Len(sep_threads) :
    /\ sep_threads[t].pc = "start"
    /\ sep_threads' = [sep_threads EXCEPT ![t] = [pc |-> "named",
                                                  base_name |-> original_file]]
    /\ UNCHANGED <<repetVars, shiftVars, original_file, vocal_file, instrumental_file,
                   buttons, pitch_thread, disk, after_queue, playback>>

\* _separate_audio_thread: self.vocal_file = ...; self.instrumental_file = ...
SepThreadSetFiles ==
  \E t \in 1..Len(sep_threads) :
    /\ sep_threads[t].pc = "named"
    /\ vocal_file' = sep_threads[t].base_name
    /\ instrumental_file' = sep_threads[t].base_name
    /\ sep_threads' = [sep_threads EXCEPT ![t].pc = "separate"]
    /\ UNCHANGED <<repetVars, shiftVars, original_file, buttons, pitch_thread, disk,
                   after_queue, playback>>

\* _separate_audio_thread: repet.separate returns or raises, and the thread
\* posts its callback with root.after(0, ...)
SepThreadFinish ==
  \E t \in 1..Len(sep_threads), ok \in BOOLEAN :
    /\ sep_threads[t].pc = "separate"
    /\ sep_threads' = [sep_threads EXCEPT ![t].pc = "finished"]
    /\ disk' = IF ok THEN disk \cup {sep_threads[t].base_name} ELSE disk
    /\ after_queue' = Append(after_queue, IF ok THEN "_separation_complete"
                                          ELSE "_separation_error")
    /\ UNCHANGED <<repetVars, shiftVars, original_file, vocal_file, instrumental_file,
                   buttons, pitch_thread, playback>>

\* apply_pitch_shift: a click on an enabled Apply button
ApplyPitchShift ==
  /\ buttons["apply_btns"] = "normal" /\ pitch_thread = "idle"
  /\ IF vocal_file = NoFile \/ vocal_file \notin disk
     THEN UNCHANGED <<buttons, pitch_thread>>
     ELSE /\ buttons' = [buttons EXCEPT !["apply_btns"] = "disabled"]
          /\ pitch_thread' = "running"
  /\ UNCHANGED <<repetVars, shiftVars, original_file, vocal_file, instrumental_file,
                 sep_threads, disk, after_queue, playback>>

\* _pitch_shift_thread: process_file returns or raises (it raises when
\* self.vocal_file is None by then), and the thread posts its callback
PitchThreadFinish ==
  /\ pitch_thread = "running"
  /\ pitch_thread' = "idle"
  /\ \E ok \in BOOLEAN :
       /\ ok => vocal_file # NoFile
       /\ after_queue' = Append(after_queue, IF ok THEN "_pitch_shift_complete"
                                             ELSE "_pitch_shift_error")
  /\ UNCHANGED <<repetVars, shiftVars, original_file, vocal_file, instrumental_file,
                 buttons, sep_threads, disk, playback>>

\* the main loop runs the oldest posted callback: _separation_complete,
\* _separation_error, _pitch_shift_complete or _pitch_shift_error
RunCallback ==
  /\ after_queue # << >>
  /\ after_queue' = Tail(after_queue)
  /\ buttons' =
       CASE Head(after_queue) = "_separation_complete" ->
              [buttons EXCEPT !["separate_btn"] = "normal",
                              !["vocal_btn"] = "normal",
                              !["instrumental_btn"] = "normal",
                              !["apply_btns"] = "normal"]
         [] Head(after_queue) = "_separation_error" ->
              [buttons EXCEPT !["separate_btn"] = "normal"]
         [] OTHER -> [buttons EXCEPT !["apply_btns"] = "normal"]
  /\ UNCHANGED <<repetVars, shiftVars, original_file, vocal_file, instrumental_file,
                 sep_threads, pitch_thread, disk, playback>>

\* play_track(track_type): a click on the enabled button of the track
PlayTrack ==
  \E track \in {"original", "vocal"} :
    LET filepath == IF track = "original" THEN original_file ELSE vocal_file
        exists   == filepath # NoFile /\ (track = "original" \/ filepath \in disk)
        stopped  == IF playback.is_playing THEN [playback EXCEPT !.busy = FALSE]
                    ELSE playback
    IN  /\ buttons[track \o "_btn"] = "normal"
        /\ playback' =
             IF ~exists THEN stopped
             ELSE LET started == update_progress([stopped EXCEPT !.busy = TRUE,
                                                                 !.is_playing = TRUE,
                                                                 !.is_paused = FALSE])
                  IN  [started EXCEPT !.play_pause_btn = "normal", !.stop_btn = "normal"]
        /\ playback'.next_job <= MaxJobs
        /\ UNCHANGED <<repetVars, shiftVars, original_file, vocal_file,
                       instrumental_file, buttons, sep_threads, pitch_thread, disk,
                       after_queue>>

\* a pending root.after(100, self.update_progress) callback fires
UpdateProgressFires ==
  /\ \E job \in playback.timers :
       playback' = update_progress([playback EXCEPT !.timers = @ \ {job}])
  /\ playback'.next_job <= MaxJobs
  /\ UNCHANGED <<repetVars, shiftVars, original_file, vocal_file, instrumental_file,
                 buttons, sep_threads, pitch_thread, disk, after_queue>>

\* toggle_play_pause: a click on the enabled Pause / Resume button
TogglePlayPause ==
  /\ playback.play_pause_btn = "normal"
  /\ playback.is_playing \/ playback.is_paused
  /\ playback' = IF playback.is_paused
                 THEN update_progress([playback EXCEPT !.is_paused = FALSE])
                 ELSE [playback EXCEPT !.is_paused = TRUE]
  /\ playback'.next_job <= MaxJobs
  /\ UNCHANGED <<repetVars, shiftVars, original_file, vocal_file, instrumental_file,
                 buttons, sep_threads, pitch_thread, disk, after_queue>>

\* stop_playback: a click on the enabled Stop button
StopPlayback ==
  /\ playback.stop_btn = "normal"
  /\ playback' = stop_playback(playback)
  /\ UNCHANGED <<repetVars, shiftVars, original_file, vocal_file, instrumental_file,
                 buttons, sep_threads, pitch_thread, disk, after_queue>>

\* on_progress_click, then on_progress_release: a seek on the progress bar
\* (the release restarts the music at the chosen time when a track plays)
Seek ==
  /\ playback' = IF playback.seeking
                 THEN [playback EXCEPT !.seeking = FALSE,
                                       !.busy = IF playback.is_playing THEN TRUE ELSE @]
                 ELSE [playback EXCEPT !.seeking = TRUE]
  /\ UNCHANGED <<repetVars, shiftVars, original_file, vocal_file, instrumental_file,
                 buttons, sep_threads, pitch_thread, disk, after_queue>>

\* the track reaches its end: pygame.mixer.music.get_busy() turns False
MusicEnds ==
  /\ playback.busy /\ playback.is_playing /\ ~playback.is_paused
  /\ playback' = [playback EXCEPT !.busy = FALSE]
  /\ UNCHANGED <<repetVars, shiftVars, original_file, vocal_file, instrumental_file,
                 buttons, sep_threads, pitch_thread, disk, after_queue>>

PlayerInit == RepetOff /\ ShiftOff /\ PlayerIdle

\* loading, separation and pitch shifting, with their threads and callbacks
PlayerNext ==
  \/ LoadAudio
  \/ SeparateAudio
  \/ SepThreadName
  \/ SepThreadSetFiles
  \/ SepThreadFinish
  \/ ApplyPitchShift
  \/ PitchThreadFinish
  \/ RunCallback

PlayerSpec == PlayerInit /\ [][PlayerNext]_vars

\* loading and playback, with the progress timer
PlaybackNext ==
  \/ LoadAudio
  \/ PlayTrack
  \/ UpdateProgressFires
  \/ TogglePlayPause
  \/ StopPlayback
  \/ Seek
  \/ MusicEnds

PlaybackSpec == PlayerInit /\ [][PlaybackNext]_vars

(***************************************************************************)
(* Claims about the separator.                                             *)
(***************************************************************************)
IsSilent(a) == \A i \in 1..Len(a) : a[i] = 0
Frames == Len(magnitude[1])
MaskCells(m) == { <<b, t>> : b \in 1..Len(m), t \in 1..Frames }
InUnit(x) == IsFinite(x) /\ FLeq(FZero, x) /\ FLeq(x, FOne)

\* C3: when separate returns, the vocal and the instrumental signal both have
\* exactly as many samples as the input, on every branch taken.
C3_SeparatorLength ==
  rpc = "done" => Len(vocal) = Len(raudio) /\ Len(instrumental) = Len(raudio)

C3_Witness ==
  /\ rpc = "done" /\ Len(raudio) = 11 /\ hop_length = 3
  /\ Frames > max_period_of(sr, hop_length)

\* C6: in every spectrogram cell the background mask plus the foreground
\* mask is exactly 1 (in floating point).
C6_MaskComplementarity ==
  rpc \in {"mask", "done"} =>
    \A c \in MaskCells(instrumental_mask) :
      FAdd(instrumental_mask[c[1]][c[2]], vocal_mask[c[1]][c[2]]) = FOne

C6_Witness ==
  /\ rpc = "mask"
  /\ \E c \in MaskCells(instrumental_mask) :
       /\ FLess(FZero, vocal_mask[c[1]][c[2]])
       /\ FLess(instrumental_mask[c[1]][c[2]], FOne)
       /\ FSub(FOne, vocal_mask[c[1]][c[2]]) # instrumental_mask[c[1]][c[2]]

\* C7: every value of the mask compute_repeating_mask returns, and of the
\* foreground mask 1 - mask, lies in [0, 1], for every Period >= 1.
C7_MaskRange ==
  rpc \in {"mask", "maskonly", "done"} =>
    \A c \in MaskCells(instrumental_mask) :
      /\ InUnit(instrumental_mask[c[1]][c[2]])
      /\ InUnit(OneMinus(instrumental_mask[c[1]][c[2]]))

\* the clamp acts: the unclamped ratio of some cell exceeds 1
C7_Witness ==
  /\ rpc = "maskonly"
  /\ \E c \in MaskCells(instrumental_mask) :
       LET spec == FloatSpec(magnitude, gain)
           rep  == repeating_spec_of(spec, period.value)
       IN  /\ FLess(spec[c[1]][c[2]], rep[c[1]][c[2]])
           /\ instrumental_mask[c[1]][c[2]] = FOne
  /\ \E c \in MaskCells(instrumental_mask) :
       FLess(instrumental_mask[c[1]][c[2]], FOne)

\* C8: for an all-zero input of length N, separate returns two buffers of N
\* zero samples; no mask value is NaN or Inf (background 1, foreground 0).
C8_Silence ==
  (rpc = "done" /\ IsSilent(raudio)) =>
    /\ Len(vocal) = Len(raudio) /\ Len(instrumental) = Len(raudio)
    /\ \A i \in 1..Len(raudio) : vocal[i] = "zero" /\ instrumental[i] = "zero"
    /\ \A c \in MaskCells(instrumental_mask) :
         /\ instrumental_mask[c[1]][c[2]] = FOne
         /\ vocal_mask[c[1]][c[2]] = FZero

C8_Witness == rpc = "done" /\ IsSilent(raudio) /\ Len(raudio) = MaxAudioLen

\* find_repeating_period was run by separate on a degenerate input
ShortInput == Len(raudio) < n_fft /\ 4 * hop_length >= n_fft
PeriodReturned == rpc = "period"

C10_PeriodAtLeastOne ==
  rpc \in {"period", "error"} => period.ok /\ period.value >= 1

\* the spectrogram is a tiling of a pattern of exactly 2 seconds (P frames),
\* repeated at least twice
TwoSecondTiling ==
  LET P == pattern_frames(sr, hop_length)
  IN  /\ ((2 * sr) % hop_length) = 0 /\ P >= 1 /\ Frames >= 2 * P
      /\ \A b \in 1..Len(magnitude) : \A t \in 1..(Frames - P) :
            magnitude[b][t] = magnitude[b][t + P]
      /\ \A q \in 1..(P - 1) : \E b \in 1..Len(magnitude) : \E t \in 1..(Frames - q) :
            magnitude[b][t] # magnitude[b][t + q]

\* C11 as claimed: for a signal built by tiling a 2-second pattern, of any
\* duration, find_repeating_period returns a Period within one frame of
\* 2 * sr / hop_length frames.
C11_PeriodDetection ==
  (PeriodReturned /\ TwoSecondTiling) =>
    Abs(period.value * hop_length - 2 * sr) <= hop_length

\* the Period is within one frame of 2 seconds
NearTwoSeconds(p, rate, hop) == Abs(p * hop - 2 * rate) <= hop

\* C12: for the 8 s test mixture at sample rate 22050 with n_fft 2048 and hop
\* 512 (176400 samples, 345 frames) the Period is within 1 frame of
\* 2 * 22050 / 512; and whenever separate returns for an 8-second input with
\* hop = n_fft / 4, the Period is within one frame of 2 seconds and both
\* outputs have the input's length.
C12_EightSecondScenario ==
  /\ ScenarioLen = 176400 /\ ScenarioFrames = 345
  /\ ScenarioPeriod.ok
  /\ NearTwoSeconds(ScenarioPeriod.value, ScenarioRate, ScenarioHop)
  /\ (rpc = "done" /\ Len(raudio) = ScenarioSeconds * sr /\ 4 * hop_length = n_fft) =>
        /\ NearTwoSeconds(period.value, sr, hop_length)
        /\ Len(vocal) = Len(raudio) /\ Len(instrumental) = Len(raudio)

C12_Witness ==
  /\ rpc = "done" /\ Len(raudio) = ScenarioSeconds * sr /\ 4 * hop_length = n_fft
  /\ TwoSecondTiling /\ gain = 0
  /\ Frames <= max_period_of(sr, hop_length)
  /\ period.value = fallback_period(Frames) /\ period.value = 2
  /\ ScenarioFrames <= max_period_of(ScenarioRate, ScenarioHop)
  /\ ScenarioPeriod.value = fallback_period(ScenarioFrames)

(***************************************************************************)
(* Claims about the pitch shifter.                                         *)
(***************************************************************************)
FacadeOps == {"shift_pitch_semitones", "shift_to_target_pitch", "process_file"}
Returned == out.kind = "signal"
Called   == spc # "idle"

\* find_pitch_marks_yin has returned its marks (on its own or inside td_psola)
MarksReturned ==
  \/ call.op = "find_pitch_marks_yin" /\ spc = "done"
  \/ /\ call.op # "find_pitch_marks_yin" /\ spc \in {"grains", "done", "error"}
     /\ engines # << >> /\ engines[1] = "td_psola" /\ ~InIdentityBand(factor)

\* C1: for every signal length, every non-zero shift and each of the three
\* methods, the signal shift_pitch_semitones returns has exactly as many
\* samples as the input, on every path.
C1_DurationInvariance ==
  (/\ call.op = "shift_pitch_semitones"
   /\ call.semitones # NumS(0)
   /\ call.method \in ValidMethods
   /\ Returned) => out.len = audio.len

\* the WSOLA loop ended by break and a signal was returned
C1_Witness ==
  /\ call.op = "shift_pitch_semitones" /\ call.method = "wsola"
  /\ ~InSemitoneBand(call.semitones)
  /\ Returned /\ wsola_st.broke /\ audio.len > frame_size

\* C2: shift_pitch_semitones(signal, 0, m) returns the input itself for each
\* of the three methods, and invokes no engine.
C2_Identity ==
  (/\ call.op = "shift_pitch_semitones"
   /\ call.semitones = NumS(0)
   /\ call.method \in ValidMethods
   /\ Called) => (spc = "done" /\ out = InputOut(audio) /\ engines = << >>)

C2_Witness ==
  /\ call.op = "shift_pitch_semitones" /\ call.semitones = NumS(0)
  /\ call.method = "td_psola" /\ spc = "done"
  /\ audio.len = MaxShortLen /\ ~AudioIsZero(audio)

\* C4 as claimed: a call through the facade whose method is not one of the
\* three is rejected with an error for every shift amount, 0 included.
C4_InvalidMethodRejected ==
  (/\ call.op \in FacadeOps
   /\ call.method \notin ValidMethods
   /\ Called) => out.kind = "error"

\* C5 as claimed: an engine called with a factor <= 0, or process_file with
\* pitch_shift_factor <= 0, never returns a signal.
C5_InvalidFactorRejected ==
  (/\ call.op \in ValidMethods \cup {"process_file"}
   /\ call.factor.k = "num" /\ call.factor.v <= 0
   /\ call.op = "process_file" => call.method \in ValidMethods) => ~Returned

\* C13: the sequence find_pitch_marks_yin returns is strictly increasing,
\* starts at index 0 when non-empty, and every mark m has 0 <= m < len(signal).
C13_PitchMarkSequence ==
  MarksReturned =>
    /\ \A i \in 1..(Len(marks) - 1) : marks[i] < marks[i + 1]
    /\ marks # << >> => marks[1] = 0
    /\ \A i \in 1..Len(marks) : 0 <= marks[i] /\ marks[i] < audio.len

C13_Witness ==
  /\ call.op = "find_pitch_marks_yin" /\ spc = "done"
  /\ Len(marks) > MinMarks /\ ~AudioIsZero(audio)
  /\ \E i \in 1..(Len(marks) - 1) : marks[i + 1] - marks[i] > scan_min_period
\* td_psola ran past its identity test and past the mark detection
TdPsolaScanned ==
  /\ call.op # "find_pitch_marks_yin" /\ spc \in {"grains", "done", "error"}
  /\ engines # << >> /\ engines[1] = "td_psola" /\ ~InIdentityBand(factor)

\* C14: td_psola called with a factor outside its identity band returns
\* exactly phase_vocoder(audio, factor) when fewer than 4 marks are found, an
\* empty or very short signal included, and raises no error of its own; with
\* 4 or more marks the phase vocoder is never invoked.
C14_PsolaFallback ==
  TdPsolaScanned =>
    IF Len(marks) < MinMarks
    THEN /\ engines = <<"td_psola", "phase_vocoder">>
         /\ out = phase_vocoder(audio, factor)
    ELSE engines = <<"td_psola">>

C14_Witness ==
  /\ TdPsolaScanned /\ call.op = "td_psola" /\ spc = "done"
  /\ Len(marks) = MinMarks - 1 /\ ~AudioIsZero(audio)
  /\ engines = <<"td_psola", "phase_vocoder">>
\* C15 as claimed: td_psola, phase_vocoder and wsola, called directly with
\* factor == 1, return the input itself through an identity fast path and run
\* no transform.
C15_EngineIdentity ==
  (/\ call.op \in ValidMethods /\ call.factor = NumF(FactorScale)
   /\ spc \in {"done", "error"}) =>
     /\ out = InputOut(audio)
     /\ marks = << >> /\ wsola_st = NoWsola
\* C16: no core operation writes to the sample buffer or spectrogram passed
\* to it, and none changes the instance fields sr, n_fft or hop_length.
C16_InputImmutability ==
  [][/\ spc # "idle" => audio' = audio
     /\ rpc # "init" => (magnitude' = magnitude /\ raudio' = raudio)
     /\ shifter_sr' = shifter_sr /\ n_fft' = n_fft /\ hop_length' = hop_length]_vars

\* td_psola has overlap-added grains into its output
C16_Witness ==
  /\ call.op = "td_psola" /\ spc = "done" /\ out.data = "processed"
  /\ \E i \in grain_indices(marks) : grain_at(audio, marks, factor, i).added
\* C17 as claimed: each iteration of the scan loop of find_pitch_marks_yin
\* advances the scan position by at least 1 sample (so the loop terminates),
\* also when min_period = int(sr / fmax) is 0.
C17_ScanAdvances ==
  [][(spc = "scan" /\ spc' = "scan") => pos' > pos]_vars

\* C18 as claimed: a mark is emitted at position pos whenever
\* len(signal) - pos >= max_period, including when exactly max_period samples
\* remain, and the scan stops when fewer remain.
C18_ScanStopCondition ==
  spc = "scan" =>
    (scan_continues(audio, pos, scan_max_period) <=> audio.len - pos >= scan_max_period)
\* C19: with min_period < max_period, the difference of every two
\* consecutive marks lies in [min_period, max_period), and so does every
\* period the scan estimates; the search window is then never empty, so the
\* midpoint fallback is used only for an empty window.
C19_LocalPeriodRange ==
  (call.op \in ValidMethods \cup FacadeOps \cup {"find_pitch_marks_yin"}
     /\ scan_min_period < scan_max_period) =>
    /\ \A i \in 1..(Len(marks) - 1) :
          /\ scan_min_period <= marks[i + 1] - marks[i]
          /\ marks[i + 1] - marks[i] < scan_max_period
    /\ (spc = "scan" /\ scan_continues(audio, pos, scan_max_period)) =>
          /\ valid_autocorr_len(audio, pos, scan_min_period, scan_max_period) > 0
          /\ scan_min_period <=
                local_period(audio, pos, scan_min_period, scan_max_period)
          /\ local_period(audio, pos, scan_min_period, scan_max_period)
                < scan_max_period

\* the marks follow the period of the signal, inside the window
C19_Witness ==
  /\ call.op = "find_pitch_marks_yin" /\ spc = "done"
  /\ scan_min_period < scan_max_period /\ scan_min_period > 0
  /\ Len(marks) >= MinMarks /\ audio.p > scan_min_period
  /\ \A i \in 1..(Len(marks) - 1) : marks[i + 1] - marks[i] = audio.p
\* the grains td_psola went through (the loop reached the length check)
GrainsChecked ==
  { i \in grain_indices(marks) :
      LET g == grain_at(audio, marks, factor, i) IN ~g.short /\ ~g.raises }

\* C20 as claimed: a grain is skipped exactly when its resampled length
\* int(actual_grain_len / factor) is below 8; a grain whose resampled length
\* is exactly 8 is resampled and overlap-added.
C20_MinimumGrainSize ==
  (TdPsolaScanned /\ spc = "done" /\ Len(marks) >= MinMarks) =>
    \A i \in GrainsChecked :
      grain_at(audio, marks, factor, i).resampled
        <=> grain_at(audio, marks, factor, i).new_len >= MinGrainLen
\* C21: for every grain td_psola resamples, the clipped destination range
\* satisfies 0 <= out_start <= out_end <= len(output), the clipped source
\* range lies inside the resampled grain, and whenever the add is performed
\* the source slice and the destination slice have the same length.
C21_OverlapAddBounds ==
  (TdPsolaScanned /\ spc \in {"grains", "done"} /\ Len(marks) >= MinMarks) =>
    \A i \in grain_indices(marks) :
      LET g == grain_at(audio, marks, factor, i)
      IN  g.resampled =>
            /\ 0 <= g.out_start /\ g.out_start <= g.out_end
            /\ g.out_end <= td_psola_output_len(audio)
            /\ 0 <= g.start_clip /\ g.start_clip <= g.end_clip
            /\ g.end_clip <= g.new_len
            /\ g.added => g.out_end - g.out_start = g.end_clip - g.start_clip

\* td_psola has added one grain clipped at the start of the output and one
\* clipped at its end
C21_Witness ==
  /\ TdPsolaScanned /\ spc = "done" /\ Len(marks) >= MinMarks
  /\ \E i \in grain_indices(marks) :
       LET g == grain_at(audio, marks, factor, i)
       IN  g.added /\ g.start_clip > 0
  /\ \E i \in grain_indices(marks) :
       LET g == grain_at(audio, marks, factor, i)
       IN  g.added /\ g.end_clip < g.new_len
\* C22 as claimed: when the beat spectrum has more than int(10*sr/hop)
\* non-negative lags, find_repeating_period returns a lag p with
\* int(sr/hop) <= p < int(10*sr/hop); when the beat spectrum is shorter than
\* that maximum lag it returns one quarter of the beat spectrum's length,
\* floored, then floored at 1.
C22_PeriodSearchAndFallback ==
  LET minp == min_period_of(sr, hop_length)
      maxp == max_period_of(sr, hop_length)
      lags == beat_spectrum_len(magnitude)
  IN  rpc \in {"period", "error"} =>
        /\ lags > maxp =>
             period.ok /\ minp <= period.value /\ period.value < maxp
        /\ lags < maxp =>
             period.ok /\ period.value = Max(lags \div 4, 1)
\* C23: for every frame count F >= 1 and Period P >= 1 the repeating
\* spectrum and the mask have exactly F frames and the spectrogram's bin
\* count; with floor(F/P) < 2 the median filter of width P is used, otherwise
\* the median is taken over exactly floor(F/P) full segments (never none),
\* tiled to P * floor(F/P) frames and edge-padded by F mod P frames.
C23_TemplateShape ==
  rpc \in {"maskonly", "mask", "done"} =>
    LET spec == FloatSpec(magnitude, gain)
        P    == period.value
        reps == Frames \div P
        rep  == repeating_spec_of(spec, P)
        bins == Len(magnitude)
    IN  /\ DOMAIN rep = 1..bins /\ DOMAIN instrumental_mask = 1..bins
        /\ \A b \in 1..bins :
              /\ DOMAIN rep[b] = 1..Frames
              /\ DOMAIN instrumental_mask[b] = 1..Frames
        /\ reps < 2 => rep = median_filter(spec, P)
        /\ reps >= 2 =>
              /\ num_segments(Frames, P) = reps
              /\ \A k \in 1..reps : full_segments(Frames, P)[k] + P <= Frames
              /\ (reps + 1) * P > Frames
              /\ pad_width(Frames, P * reps) = Frames % P
              /\ \A b \in 1..bins :
                    LET tiled == tiled_segment(spec, P)[b]
                    IN  /\ DOMAIN tiled = 1..(P * reps)
                        /\ \A t \in 1..Frames : rep[b][t] = tiled[Min(t, P * reps)]

\* a mask computed on its own from at least 2 full segments and a partial
\* one, whose padded frames differ from the spectrogram's
C23_Witness ==
  /\ rpc = "maskonly" /\ Frames \div period.value >= 2
  /\ (Frames % period.value) > 0
  /\ \E b \in 1..Len(magnitude) :
       repeating_spec_of(FloatSpec(magnitude, gain), period.value)[b][Frames]
         # FloatSpec(magnitude, gain)[b][Frames]
\* wsola has gone through at least one frame of its synthesis loop
WsolaFrameDone == spc \in {"wsola_loop", "done"} /\ wsola_st.i >= 1

\* C24: on every synthesis frame i > 0 on which the similarity search runs,
\* the selected read position p satisfies natural_pos - 50 <= p <=
\* natural_pos + 50, p >= 0 and p + frame_size <= len(resampled), with
\* natural_pos = i * analysis-hop; frame 0 reads at position 0; the template
\* is the 512 samples of the output that end at the output position.
C24_SearchWindow ==
  WsolaFrameDone =>
    /\ wsola_st.i = 1 => wsola_st.input_pos = 0 /\ ~wsola_st.searched
    /\ (wsola_st.searched /\ ~wsola_st.broke) =>
          /\ wsola_st.natural_pos = (wsola_st.i - 1) * wsola_st.hop_analysis
          /\ wsola_st.natural_pos - 50 <= wsola_st.input_pos
          /\ wsola_st.input_pos <= wsola_st.natural_pos + 50
          /\ wsola_st.input_pos >= 0
          /\ wsola_st.input_pos + 2048 <= wsola_st.R
          /\ wsola_st.template[2] = (wsola_st.i - 1) * 512
          /\ wsola_st.template[2] - wsola_st.template[1] = 512

\* the search picked the last position the clip to the end of the resampled
\* signal allows, short of natural_pos + 50
C24_Witness ==
  /\ WsolaFrameDone /\ wsola_st.searched
  /\ wsola_st.input_pos = wsola_st.R - 2048 - 1
  /\ wsola_st.input_pos < wsola_st.natural_pos + 49
\* C25 as claimed: every one of the num_frames synthesis frames is extracted
\* and overlap-added at output position i * 512; a frame that runs past the
\* end of the resampled signal is zero-padded, never dropped, so synthesis
\* does not stop before the last planned frame for any factor > 0, also
\* when the analysis hop is floored at 32.
C25_AllFramesSynthesized ==
  (spc \in {"wsola_loop", "done"} /\ wsola_st.R > 0
     /\ factor.k = "num" /\ factor.v > 0) =>
    /\ ~wsola_st.broke
    /\ wsola_st.output_pos = wsola_st.i * 512
    /\ spc = "done" => wsola_st.i = Max(wsola_st.num_frames, 0)
\* wsola was called with a factor outside its identity band
WsolaCalled ==
  /\ engines # << >> /\ engines[Len(engines)] = "wsola"
  /\ ~InIdentityBand(factor)

\* every frame placed so far ended at output_pos + 2048 <= L - 512: the clip
\* of the overlap-add cut nothing and the last 512 samples were not written
WsolaFramesUnclipped ==
  (WsolaCalled /\ spc \in {"wsola_loop", "done"} /\ wsola_st.R > 0) =>
    /\ wsola_st.num_frames = TruncQuot(audio.len - 2048, 512)
    /\ wsola_st.i >= 1 =>
          /\ wsola_st.written = (wsola_st.i - 1) * 512 + 2048
          /\ wsola_st.written <= audio.len - 512
    /\ wsola_st.i = 0 => wsola_st.written = 0

\* C26 as claimed: every synthesis frame satisfies output_pos + 2048 <=
\* L - 512, so the final 512 samples of the WSOLA output stay 0; for every
\* non-silent input with L < 2560 and a non-identity factor the output is
\* all zeros.
C26_ShortInputAllZeros ==
  /\ WsolaFramesUnclipped
  /\ (WsolaCalled /\ spc = "done" /\ ~AudioIsZero(audio) /\ audio.len < 2560) =>
        out = BufferOut(audio.len, TRUE)

\* C26 amended: every synthesis frame satisfies output_pos + 2048 <= L - 512;
\* for a non-silent input with L < 2560 and a non-identity factor the output
\* is all zeros when int(L / factor) > 0, and the input itself when
\* int(L / factor) <= 0 (factor > L, or factor < 0).
C26_OutputCoverage ==
  /\ WsolaFramesUnclipped
  /\ (WsolaCalled /\ spc = "done" /\ ~AudioIsZero(audio) /\ audio.len < 2560) =>
        out = IF wsola_resampled_len(audio, factor).value > 0
              THEN BufferOut(audio.len, TRUE)
              ELSE InputOut(audio)

\* a short non-silent input came back from wsola as a buffer of zeros
C26_Witness ==
  /\ WsolaCalled /\ spc = "done" /\ ~AudioIsZero(audio) /\ audio.len = 13
  /\ factor = NumF(200000) /\ wsola_st.R = 6 /\ wsola_st.num_frames < 0
  /\ out = BufferOut(13, TRUE)
\* C27 as claimed: whenever shift_pitch_semitones does not take its own
\* identity path (|semitones| >= 0.01), the identity test of the selected
\* engine, |factor - 1| < 0.001 with factor = 2^(semitones/12), is false for
\* td_psola and wsola, so the engine processes the signal.
C27_ConsistentIdentityBands ==
  (/\ call.op = "shift_pitch_semitones" /\ Called
   /\ ~InSemitoneBand(call.semitones)
   /\ call.method \in {"td_psola", "wsola"}) =>
    /\ ~InIdentityBand(factor)
    /\ (spc = "done" /\ audio.len >= frame_size) => out # InputOut(audio)

(***************************************************************************)
(* Claims about the player.                                                *)
(***************************************************************************)
\* the separation threads that have not posted their callback yet
ActiveSepThreads == { t \in 1..Len(sep_threads) : sep_threads[t].pc # "finished" }

\* a separation is under way: its thread runs, or its callback is posted
SeparationInFlight ==
  \/ ActiveSepThreads # {}
  \/ \E k \in 1..Len(after_queue) :
       after_queue[k] \in {"_separation_complete", "_separation_error"}

\* C28 as claimed: under every interleaving of user events and thread
\* completions the Separate button stays disabled from separate_audio until
\* _separation_complete or _separation_error runs, so at most one separation
\* thread is active at any time.
C28_SingleSeparation ==
  /\ SeparationInFlight => buttons["separate_btn"] = "disabled"
  /\ Cardinality(ActiveSepThreads) <= 1

\* C29 as claimed: whenever _separation_complete runs, and whenever the
\* Vocal, Instrumental or Apply buttons are enabled, vocal_file and
\* instrumental_file are non-None and are the paths derived from the
\* currently loaded original_file.
C29_ResultConsistency ==
  (\/ after_queue # << >> /\ Head(after_queue) = "_separation_complete"
   \/ buttons["vocal_btn"] = "normal"
   \/ buttons["instrumental_btn"] = "normal"
   \/ buttons["apply_btns"] = "normal") =>
    /\ vocal_file # NoFile /\ instrumental_file # NoFile
    /\ vocal_file = original_file /\ instrumental_file = original_file

\* C30 as claimed: at most one update_progress callback is pending at any
\* time, it is the one recorded in update_progress_job, and after
\* stop_playback (is_playing is False again) no update_progress callback
\* remains pending.
C30_SingleProgressTimer ==
  /\ Cardinality(playback.timers) <= 1
  /\ playback.timers # {} => playback.timers = {playback.update_progress_job}
  /\ ~playback.is_playing => playback.timers = {}
====
